---------------------------- MODULE Spec2Model ----------------------------
(***************************************************************************)
(* A model of gitlab-ci-env.py: the commit-ref slug, the environment slug  *)
(* (with its SHA-256 / base36 suffix), the interpolation of $NAME and      *)
(* ${NAME} tokens, and PredefinedVariables.generate.                       *)
(*                                                                         *)
(* A Python str is a sequence of one-character strings; the two characters *)
(* outside ASCII that the model uses are written "U+0130" and "U+0307".    *)
(* A bytes object is a sequence of numbers in 0..255.  A 32-bit word of    *)
(* SHA-256 is a pair <<hi, lo>> of 16-bit halves.                          *)
(***************************************************************************)
EXTENDS Integers, Sequences, FiniteSets, TLC

(***************************************************************************)
(* Characters                                                              *)
(***************************************************************************)
LowerLetters ==
    << "a", "b", "c", "d", "e", "f", "g", "h", "i", "j", "k", "l", "m",
       "n", "o", "p", "q", "r", "s", "t", "u", "v", "w", "x", "y", "z" >>

UpperLetters ==
    << "A", "B", "C", "D", "E", "F", "G", "H", "I", "J", "K", "L", "M",
       "N", "O", "P", "Q", "R", "S", "T", "U", "V", "W", "X", "Y", "Z" >>

Digits == << "0", "1", "2", "3", "4", "5", "6", "7", "8", "9" >>

\* The printable ASCII characters, code 32 first (the double quote, the
\* backslash and the backtick are written "U+0022", "U+005C" and "U+0060").
AsciiPrintable ==
    << " ", "!", "U+0022", "#", "$", "%", "&", "'", "(", ")", "*", "+", ",", "-", ".", "/" >>
    \o Digits
    \o << ":", ";", "<", "=", ">", "?", "@" >>
    \o UpperLetters
    \o << "[", "U+005C", "]", "^", "_", "U+0060" >>
    \o LowerLetters
    \o << "{", "|", "}", "~" >>

Range(s) == { s[i] : i \in 1..Len(s) }

\* "".join(parts): the members of parts[lo..hi] one after the other.
RECURSIVE FlatRange(_, _, _)
FlatRange(parts, lo, hi) ==
    IF lo > hi THEN << >>
    ELSE IF lo = hi THEN parts[lo]
    ELSE LET mid == (lo + hi) \div 2
         IN  FlatRange(parts, lo, mid) \o FlatRange(parts, mid + 1, hi)

Flat(parts) == FlatRange(parts, 1, Len(parts))

LowerSet == Range(LowerLetters)
UpperSet == Range(UpperLetters)
DigitSet == Range(Digits)
AlnumSet == LowerSet \cup DigitSet

\* ord(): the code point of an ASCII character.
AsciiCode == [ c \in Range(AsciiPrintable) |->
                 31 + CHOOSE i \in 1..Len(AsciiPrintable) : AsciiPrintable[i] = c ]

\* str.encode(): the UTF-8 bytes of one character.
Utf8Char(c) ==
    IF c = "U+0130" THEN << 196, 176 >>
    ELSE IF c = "U+0307" THEN << 204, 135 >>
    ELSE << AsciiCode[c] >>

\* str.encode()
Utf8(s) == Flat([ i \in 1..Len(s) |-> Utf8Char(s[i]) ])

LowerOfUpper == [ c \in UpperSet |->
                    LowerLetters[CHOOSE i \in 1..26 : UpperLetters[i] = c] ]

\* str.lower() of one character: LATIN CAPITAL LETTER I WITH DOT ABOVE
\* lowercases to two characters, "i" and COMBINING DOT ABOVE.
LowerChar(c) ==
    IF c \in UpperSet THEN << LowerOfUpper[c] >>
    ELSE IF c = "U+0130" THEN << "i", "U+0307" >>
    ELSE << c >>

\* str.lower()
Lower(s) == Flat([ i \in 1..Len(s) |-> LowerChar(s[i]) ])

(***************************************************************************)
(* hashlib.sha256                                                          *)
(***************************************************************************)
\* x AND y of two 4-bit numbers, at [x + 1][y + 1].
AndNibble ==
    << << 0,  0,  0,  0,  0,  0,  0,  0,  0,  0,  0,  0,  0,  0,  0,  0>>,
       << 0,  1,  0,  1,  0,  1,  0,  1,  0,  1,  0,  1,  0,  1,  0,  1>>,
       << 0,  0,  2,  2,  0,  0,  2,  2,  0,  0,  2,  2,  0,  0,  2,  2>>,
       << 0,  1,  2,  3,  0,  1,  2,  3,  0,  1,  2,  3,  0,  1,  2,  3>>,
       << 0,  0,  0,  0,  4,  4,  4,  4,  0,  0,  0,  0,  4,  4,  4,  4>>,
       << 0,  1,  0,  1,  4,  5,  4,  5,  0,  1,  0,  1,  4,  5,  4,  5>>,
       << 0,  0,  2,  2,  4,  4,  6,  6,  0,  0,  2,  2,  4,  4,  6,  6>>,
       << 0,  1,  2,  3,  4,  5,  6,  7,  0,  1,  2,  3,  4,  5,  6,  7>>,
       << 0,  0,  0,  0,  0,  0,  0,  0,  8,  8,  8,  8,  8,  8,  8,  8>>,
       << 0,  1,  0,  1,  0,  1,  0,  1,  8,  9,  8,  9,  8,  9,  8,  9>>,
       << 0,  0,  2,  2,  0,  0,  2,  2,  8,  8, 10, 10,  8,  8, 10, 10>>,
       << 0,  1,  2,  3,  0,  1,  2,  3,  8,  9, 10, 11,  8,  9, 10, 11>>,
       << 0,  0,  0,  0,  4,  4,  4,  4,  8,  8,  8,  8, 12, 12, 12, 12>>,
       << 0,  1,  0,  1,  4,  5,  4,  5,  8,  9,  8,  9, 12, 13, 12, 13>>,
       << 0,  0,  2,  2,  4,  4,  6,  6,  8,  8, 10, 10, 12, 12, 14, 14>>,
       << 0,  1,  2,  3,  4,  5,  6,  7,  8,  9, 10, 11, 12, 13, 14, 15>> >>

\* x XOR y of two 4-bit numbers, at [x + 1][y + 1].
XorNibble ==
    << << 0,  1,  2,  3,  4,  5,  6,  7,  8,  9, 10, 11, 12, 13, 14, 15>>,
       << 1,  0,  3,  2,  5,  4,  7,  6,  9,  8, 11, 10, 13, 12, 15, 14>>,
       << 2,  3,  0,  1,  6,  7,  4,  5, 10, 11,  8,  9, 14, 15, 12, 13>>,
       << 3,  2,  1,  0,  7,  6,  5,  4, 11, 10,  9,  8, 15, 14, 13, 12>>,
       << 4,  5,  6,  7,  0,  1,  2,  3, 12, 13, 14, 15,  8,  9, 10, 11>>,
       << 5,  4,  7,  6,  1,  0,  3,  2, 13, 12, 15, 14,  9,  8, 11, 10>>,
       << 6,  7,  4,  5,  2,  3,  0,  1, 14, 15, 12, 13, 10, 11,  8,  9>>,
       << 7,  6,  5,  4,  3,  2,  1,  0, 15, 14, 13, 12, 11, 10,  9,  8>>,
       << 8,  9, 10, 11, 12, 13, 14, 15,  0,  1,  2,  3,  4,  5,  6,  7>>,
       << 9,  8, 11, 10, 13, 12, 15, 14,  1,  0,  3,  2,  5,  4,  7,  6>>,
       <<10, 11,  8,  9, 14, 15, 12, 13,  2,  3,  0,  1,  6,  7,  4,  5>>,
       <<11, 10,  9,  8, 15, 14, 13, 12,  3,  2,  1,  0,  7,  6,  5,  4>>,
       <<12, 13, 14, 15,  8,  9, 10, 11,  4,  5,  6,  7,  0,  1,  2,  3>>,
       <<13, 12, 15, 14,  9,  8, 11, 10,  5,  4,  7,  6,  1,  0,  3,  2>>,
       <<14, 15, 12, 13, 10, 11,  8,  9,  6,  7,  4,  5,  2,  3,  0,  1>>,
       <<15, 14, 13, 12, 11, 10,  9,  8,  7,  6,  5,  4,  3,  2,  1,  0>> >>

\* A bitwise operation on two 16-bit numbers, one 4-bit digit at a time.
Nibbles16(tab, a, b) ==
      4096 * tab[(a \div 4096) + 1][(b \div 4096) + 1]
    + 256 * tab[((a \div 256) % 16) + 1][((b \div 256) % 16) + 1]
    + 16 * tab[((a \div 16) % 16) + 1][((b \div 16) % 16) + 1]
    + tab[(a % 16) + 1][(b % 16) + 1]

And16(a, b) == Nibbles16(AndNibble, a, b)
Xor16(a, b) == Nibbles16(XorNibble, a, b)

WAnd(x, y) == << And16(x[1], y[1]), And16(x[2], y[2]) >>
WXor(x, y) == << Xor16(x[1], y[1]), Xor16(x[2], y[2]) >>
WNot(x) == << 65535 - x[1], 65535 - x[2] >>

WAdd(x, y) ==
    LET lo == x[2] + y[2]
    IN  << (x[1] + y[1] + (lo \div 65536)) % 65536, lo % 65536 >>

RECURSIVE RotR(_, _)
RotR(x, n) ==
    IF n >= 16 THEN RotR(<< x[2], x[1] >>, n - 16)
    ELSE LET p == 2 ^ n
             q == 2 ^ (16 - n)
         IN  << (x[1] \div p) + (x[2] % p) * q,
                (x[2] \div p) + (x[1] % p) * q >>

ShR(x, n) ==
    IF n >= 16 THEN << 0, x[1] \div (2 ^ (n - 16)) >>
    ELSE LET p == 2 ^ n
             q == 2 ^ (16 - n)
         IN  << x[1] \div p, (x[2] \div p) + (x[1] % p) * q >>

K256 ==
    << <<17034, 12184>>, <<28983, 17553>>, <<46528, 64463>>, <<59829, 56229>>,
       <<14678, 49755>>, <<23025, 4593>>, <<37439, 33444>>, <<43804, 24277>>,
       <<55303, 43672>>, <<4739, 23297>>, <<9265, 34238>>, <<21772, 32195>>,
       <<29374, 23924>>, <<32990, 45566>>, <<39900, 1703>>, <<49563, 61812>>,
       <<58523, 27073>>, <<61374, 18310>>, <<4033, 40390>>, <<9228, 41420>>,
       <<11753, 11375>>, <<19060, 33962>>, <<23728, 43484>>, <<30457, 35034>>,
       <<38974, 20818>>, <<43057, 50797>>, <<45059, 10184>>, <<48985, 32711>>,
       <<50912, 3059>>, <<54695, 37191>>, <<1738, 25425>>, <<5161, 10599>>,
       <<10167, 2693>>, <<11803, 8504>>, <<19756, 28156>>, <<21304, 3347>>,
       <<25866, 29524>>, <<30314, 2747>>, <<33218, 51502>>, <<37490, 11397>>,
       <<41663, 59553>>, <<43034, 26187>>, <<49739, 35696>>, <<51052, 20899>>,
       <<53650, 59417>>, <<54937, 1572>>, <<62478, 13701>>, <<4202, 41072>>,
       <<6564, 49430>>, <<7735, 27656>>, <<10056, 30540>>, <<13488, 48309>>,
       <<14620, 3251>>, <<20184, 43594>>, <<23452, 51791>>, <<26670, 28659>>,
       <<29839, 33518>>, <<30885, 25455>>, <<33992, 30740>>, <<36039, 520>>,
       <<37054, 65530>>, <<42064, 27883>>, <<48889, 41975>>, <<50801, 30962>> >>

H256 ==
    << <<27145, 58983>>, <<47975, 44677>>, <<15470, 62322>>, <<42319, 62778>>,
       <<20750, 21119>>, <<39685, 26764>>, <<8067, 55723>>, <<23520, 52505>> >>

Zeros(n) == [ i \in 1..n |-> 0 ]

\* The message followed by 0x80, zero bytes up to 56 mod 64, and the bit
\* length as 8 big-endian bytes (the model's messages are under 8192 bytes).
ShaPad(msg) ==
    LET n    == Len(msg)
        bits == 8 * n
        z    == (119 - (n % 64)) % 64
    IN  msg \o << 128 >> \o Zeros(z) \o Zeros(5)
            \o << bits \div 65536, (bits \div 256) % 256, bits % 256 >>

\* The 16 big-endian words of the 64-byte block that starts after byte off.
ShaBlockWords(m, off) ==
    [ i \in 1..16 |->
        << m[off + 4 * i - 3] * 256 + m[off + 4 * i - 2],
           m[off + 4 * i - 1] * 256 + m[off + 4 * i] >> ]

SmallSigma0(x) == WXor(WXor(RotR(x, 7), RotR(x, 18)), ShR(x, 3))
SmallSigma1(x) == WXor(WXor(RotR(x, 17), RotR(x, 19)), ShR(x, 10))
BigSigma0(x) == WXor(WXor(RotR(x, 2), RotR(x, 13)), RotR(x, 22))
BigSigma1(x) == WXor(WXor(RotR(x, 6), RotR(x, 11)), RotR(x, 25))
Ch(e, f, g) == WXor(WAnd(e, f), WAnd(WNot(e), g))
Maj(a, b, c) == WXor(WXor(WAnd(a, b), WAnd(a, c)), WAnd(b, c))

RECURSIVE ShaSchedule(_)
ShaSchedule(w) ==
    IF Len(w) = 64 THEN w
    ELSE LET t == Len(w) + 1
         IN ShaSchedule(Append(w,
                WAdd(WAdd(w[t - 16], SmallSigma0(w[t - 15])),
                     WAdd(w[t - 7], SmallSigma1(w[t - 2])))))

\* Round s.t: the working variables a..h are s.v[1]..s.v[8].
ShaRound(s, w) ==
    LET v  == s.v
        t1 == WAdd(WAdd(WAdd(v[8], BigSigma1(v[5])), Ch(v[5], v[6], v[7])),
                   WAdd(K256[s.t], w[s.t]))
        t2 == WAdd(BigSigma0(v[1]), Maj(v[1], v[2], v[3]))
    IN  [ t |-> s.t + 1,
          v |-> << WAdd(t1, t2), v[1], v[2], v[3], WAdd(v[4], t1), v[5], v[6], v[7] >> ]

RECURSIVE ShaRounds(_, _)
ShaRounds(s, w) == IF s.t > 64 THEN s.v ELSE ShaRounds(ShaRound(s, w), w)

ShaCompress(h, m, off) ==
    LET w == ShaSchedule(ShaBlockWords(m, off))
        s == ShaRounds([ t |-> 1, v |-> h ], w)
    IN  [ i \in 1..8 |-> WAdd(h[i], s[i]) ]

RECURSIVE ShaBlocks(_, _, _)
ShaBlocks(h, m, off) ==
    IF off >= Len(m) THEN h ELSE ShaBlocks(ShaCompress(h, m, off), m, off + 64)

RECURSIVE WordBytes(_, _)
WordBytes(h, i) ==
    IF i > Len(h) THEN << >>
    ELSE << h[i][1] \div 256, h[i][1] % 256, h[i][2] \div 256, h[i][2] % 256 >>
         \o WordBytes(h, i + 1)

\* hashlib.sha256(b).digest(): 32 bytes.
Sha256(msg) == WordBytes(ShaBlocks(H256, ShaPad(msg), 0), 1)

(***************************************************************************)
(* b36encode                                                               *)
(***************************************************************************)
BASE36_LOWERCASE_ALPHABET == Digits \o LowerLetters

\* The digits of a number without its leading zeros.
StripZeros(b) ==
    LET nz == { i \in 1..Len(b) : b[i] # 0 }
    IN  IF nz = {} THEN << >>
        ELSE SubSeq(b, CHOOSE i \in nz : \A j \in nz : i <= j, Len(b))

\* divmod(num, 36) of the number whose big-endian base-256 digits are b:
\* <<quotient digits, remainder>>.
RECURSIVE DivMod36(_, _)
DivMod36(b, st) ==
    IF Len(st.q) = Len(b) THEN << StripZeros(st.q), st.r >>
    ELSE LET cur == st.r * 256 + b[Len(st.q) + 1]
         IN  DivMod36(b, [ q |-> Append(st.q, cur \div 36), r |-> cur % 36 ])

\* The while loop of b36encode.
RECURSIVE B36Loop(_, _)
B36Loop(st, alphabet) ==
    IF st.num = << >> THEN st.base36
    ELSE LET qr == DivMod36(st.num, [ q |-> << >>, r |-> 0 ])
         IN  B36Loop([ num |-> qr[1],
                       base36 |-> << alphabet[qr[2] + 1] >> \o st.base36 ],
                     alphabet)

b36encode(b, alphabet) ==
    B36Loop([ num |-> StripZeros(b), base36 |-> << >> ], alphabet)

(***************************************************************************)
(* str helpers                                                             *)
(***************************************************************************)
\* s[:n]
Take(s, n) == IF Len(s) <= n THEN s ELSE SubSeq(s, 1, n)

\* s[-n:]
LastN(s, n) == IF Len(s) <= n THEN s ELSE SubSeq(s, Len(s) - n + 1, Len(s))

\* s[i:] for a 0-based i
Drop(s, i) == SubSeq(s, i + 1, Len(s))

\* s.startswith(p) at 0-based offset i
MatchAt(s, i, p) ==
    /\ i + Len(p) <= Len(s)
    /\ \A k \in 1..Len(p) : s[i + k] = p[k]

EndsWithDash(s) == s # << >> /\ s[Len(s)] = "-"

\* str.rstrip("-")
RStripDash(s) ==
    LET keep == { i \in 1..Len(s) : s[i] # "-" }
    IN  IF keep = {} THEN << >>
        ELSE SubSeq(s, 1, CHOOSE i \in keep : \A j \in keep : j <= i)

\* str.replace(old, new) for a non-empty old: the occurrences of old are taken
\* left to right without overlap, and the text put in is not scanned again.
\* ReplaceFrom is the result for s[i:].
RECURSIVE ReplaceFrom(_, _, _, _)
ReplaceFrom(s, i, old, new) ==
    LET found == { j \in i..(Len(s) - Len(old)) : MatchAt(s, j, old) }
    IN  IF found = {} THEN Drop(s, i)
        ELSE LET j == CHOOSE j \in found : \A k \in found : j <= k
             IN  SubSeq(s, i + 1, j) \o new \o ReplaceFrom(s, j + Len(old), old, new)

Replace(s, old, new) == ReplaceFrom(s, 0, old, new)

(***************************************************************************)
(* generate_commit_ref_slug                                                *)
(***************************************************************************)
CommitRefSlugLen == 63

\* [a-z0-9-]
RefSlugChars == AlnumSet \cup { "-" }

\* re.sub("[^a-z0-9-]+", "-", slug): every maximal run of characters outside
\* the class becomes one "-".
SubNonSlugRuns(s) ==
    Flat([ i \in 1..Len(s) |->
             IF s[i] \in RefSlugChars THEN << s[i] >>
             ELSE IF i > 1 /\ s[i - 1] \notin RefSlugChars THEN << >>
             ELSE << "-" >> ])

\* The matches of ^-*([a-z0-9-]+[a-z0-9])-*$$ on s, as <<i, j>>: -* takes
\* s[1..i], the group is s[i+1..j] and -* takes the rest.  "$" also matches
\* before a final newline; a newline is outside [a-z0-9-].
AnchoredStripMatches(s) ==
    LET ends == { j \in 2..Len(s) :
                    /\ s[j] \in AlnumSet
                    /\ \A k \in (j + 1)..Len(s) : s[k] = "-" }
    IN  { m \in UNION { { << i, j >> : i \in 0..(j - 2) } : j \in ends } :
            /\ \A k \in 1..m[1] : s[k] = "-"
            /\ \A k \in (m[1] + 1)..(m[2] - 1) : s[k] \in RefSlugChars }

\* A variant of AnchoredStrip: slug.strip("-").
AnchoredStripNaive(s) ==
    LET keep == { i \in 1..Len(s) : s[i] # "-" }
    IN  IF keep = {} THEN << >>
        ELSE SubSeq(s, CHOOSE i \in keep : \A j \in keep : i <= j,
                       CHOOSE i \in keep : \A j \in keep : j <= i)

\* A variant of AnchoredStrip: "-?" for each "-*" of the pattern.
AnchoredStripOneDash(s) ==
    LET ms == { m \in AnchoredStripMatches(s) : m[1] <= 1 /\ Len(s) - m[2] <= 1 }
    IN  IF ms = {} THEN s
        ELSE LET m == CHOOSE m \in ms : \A o \in ms : o[1] <= m[1]
             IN  SubSeq(s, m[1] + 1, m[2])

\* re.sub("^-*([a-z0-9-]+[a-z0-9])-*$$", "\\1", slug): the leading -* is
\* greedy, so of the matches the one with the longest run of dashes is taken.
AnchoredStrip(s) ==
    LET ms == AnchoredStripMatches(s)
    IN  IF ms = {} THEN s
        ELSE LET m == CHOOSE m \in ms : \A o \in ms : o[1] <= m[1]
             IN  SubSeq(s, m[1] + 1, m[2])

\* A variant of RefSlugNormalize: the cut before the lowercasing.
RefSlugNormalizeCutFirst(branch) ==
    SubNonSlugRuns(Lower(Take(branch, CommitRefSlugLen)))

\* Lines 36-37: lowercase, cut, replace.
RefSlugNormalize(branch) ==
    SubNonSlugRuns(Take(Lower(branch), CommitRefSlugLen))

generate_commit_ref_slug(branch) == AnchoredStrip(RefSlugNormalize(branch))

(***************************************************************************)
(* generate_environment_slug                                               *)
(***************************************************************************)
EnvSlugMaxLen == 24
EnvSlugPrefixLen == 17
EnvSlugHashLen == 6

\* re.sub("[^a-z0-9]", "-", s)
SubNonAlnum(s) == [ i \in 1..Len(s) |-> IF s[i] \in AlnumSet THEN s[i] ELSE "-" ]

\* re.sub(r"\-+", "-", s)
CollapseDashes(s) ==
    Flat([ i \in 1..Len(s) |->
             IF s[i] = "-" /\ i > 1 /\ s[i - 1] = "-" THEN << >> ELSE << s[i] >> ])

\* A variant of EnvSlugCollapsed: no "env-" prefix.
EnvSlugCollapsedNoPrefix(environment_name) ==
    CollapseDashes(SubNonAlnum(Lower(environment_name)))

\* Lines 56-63: the slug before the length test.
EnvSlugCollapsed(environment_name) ==
    LET slug == SubNonAlnum(Lower(environment_name))
        pre  == IF slug # << >> /\ slug[1] \in LowerSet
                THEN slug
                ELSE << "e", "n", "v", "-" >> \o slug
    IN  CollapseDashes(pre)

\* A variant of EnvSlugHash: the hash of the collapsed slug.
EnvSlugHashOfSlug(environment_name) ==
    LastN(b36encode(Sha256(Utf8(EnvSlugCollapsed(environment_name))),
                    BASE36_LOWERCASE_ALPHABET),
          EnvSlugHashLen)

\* Lines 77-81: the last characters of the base36 SHA-256 of the name.
EnvSlugHash(environment_name) ==
    LastN(b36encode(Sha256(Utf8(environment_name)), BASE36_LOWERCASE_ALPHABET),
          EnvSlugHashLen)

\* A variant of EnvSlugPrefix: slug[:16].
EnvSlugPrefixShort(slug) ==
    LET cut == Take(slug, EnvSlugPrefixLen - 1)
    IN  IF EndsWithDash(cut) THEN cut ELSE Append(cut, "-")

\* Lines 72-74
EnvSlugPrefix(slug) ==
    LET cut == Take(slug, EnvSlugPrefixLen)
    IN  IF EndsWithDash(cut) THEN cut ELSE Append(cut, "-")

generate_environment_slug(environment_name) ==
    LET slug == EnvSlugCollapsed(environment_name)
    IN  IF Len(slug) <= EnvSlugMaxLen /\ slug = environment_name
        THEN RStripDash(slug)
        ELSE EnvSlugPrefix(slug) \o EnvSlugHash(environment_name)

(***************************************************************************)
(* dict: a sequence of <<key, value>> pairs in insertion order, the keys   *)
(* distinct.  Optional[str]: None is << >> and a string s is << s >>.      *)
(***************************************************************************)
None == << >>
Some(v) == << v >>

HasKey(d, k) == \E i \in 1..Len(d) : d[i][1] = k

\* d[k]
Lookup(d, k) == d[CHOOSE i \in 1..Len(d) : d[i][1] = k][2]

\* d.get(k): None for an absent key
Get(d, k) == IF HasKey(d, k) THEN Some(Lookup(d, k)) ELSE None

\* d[k] = v: a key already in d keeps its place and takes the new value.
DictSet(d, k, v) ==
    IF HasKey(d, k)
    THEN [ i \in 1..Len(d) |-> IF d[i][1] = k THEN << k, v >> ELSE d[i] ]
    ELSE Append(d, << k, v >>)

\* d.update(e), and {**d, **e}
RECURSIVE DictUpdate(_, _)
DictUpdate(d, e) ==
    IF e = << >> THEN d ELSE DictUpdate(DictSet(d, e[1][1], e[1][2]), Tail(e))

(***************************************************************************)
(* interpolate_env_variables                                               *)
(***************************************************************************)
\* f"${key}" and f"${{{key}}}"
DollarKey(key) == << "$" >> \o key
DollarBraceKey(key) == << "$", "{" >> \o key \o << "}" >>

RECURSIVE interpolate_env_variables(_, _)
interpolate_env_variables(string, env_variables) ==
    IF env_variables = << >> THEN string
    ELSE LET key == env_variables[1][1]
             val == env_variables[1][2]
         IN  interpolate_env_variables(
                 Replace(Replace(string, DollarKey(key), val),
                         DollarBraceKey(key), val),
                 Tail(env_variables))

(***************************************************************************)
(* PredefinedVariables.generate                                            *)
(***************************************************************************)
K_CI_COMMIT_REF_NAME ==
    << "C", "I", "_", "C", "O", "M", "M", "I", "T", "_", "R", "E", "F",
       "_", "N", "A", "M", "E" >>
K_CI_COMMIT_REF_SLUG ==
    << "C", "I", "_", "C", "O", "M", "M", "I", "T", "_", "R", "E", "F",
       "_", "S", "L", "U", "G" >>
K_CI_ENVIRONMENT_NAME ==
    << "C", "I", "_", "E", "N", "V", "I", "R", "O", "N", "M", "E", "N",
       "T", "_", "N", "A", "M", "E" >>
K_CI_ENVIRONMENT_SLUG ==
    << "C", "I", "_", "E", "N", "V", "I", "R", "O", "N", "M", "E", "N",
       "T", "_", "S", "L", "U", "G" >>
K_CI_ENVIRONMENT_URL ==
    << "C", "I", "_", "E", "N", "V", "I", "R", "O", "N", "M", "E", "N",
       "T", "_", "U", "R", "L" >>

\* bool(environment_url) of an Optional[str]
Truthy(opt) == opt # None /\ opt[1] # << >>

\* A variant of GeneratePredefined: the slug of the template, not of the
\* resolved name.
GeneratePredefinedSlugOfTemplate(branch, environment_name) ==
    LET commit_ref_slug == generate_commit_ref_slug(branch)
        predefined == << << K_CI_COMMIT_REF_NAME, branch >>,
                         << K_CI_COMMIT_REF_SLUG, commit_ref_slug >> >>
        ci_environment_name == interpolate_env_variables(environment_name, predefined)
        environment_slug == generate_environment_slug(environment_name)
    IN  DictUpdate(predefined,
                   << << K_CI_ENVIRONMENT_NAME, ci_environment_name >>,
                      << K_CI_ENVIRONMENT_SLUG, environment_slug >> >>)

\* The dict "predefined" as line 129 finds it.
GeneratePredefined(branch, environment_name) ==
    LET commit_ref_slug == generate_commit_ref_slug(branch)
        predefined == << << K_CI_COMMIT_REF_NAME, branch >>,
                         << K_CI_COMMIT_REF_SLUG, commit_ref_slug >> >>
        ci_environment_name == interpolate_env_variables(environment_name, predefined)
        environment_slug == generate_environment_slug(ci_environment_name)
    IN  DictUpdate(predefined,
                   << << K_CI_ENVIRONMENT_NAME, ci_environment_name >>,
                      << K_CI_ENVIRONMENT_SLUG, environment_slug >> >>)

\* Lines 129-135: predefined with CI_ENVIRONMENT_URL, when the template is truthy.
GenerateWithUrl(predefined, environment_url, env) ==
    IF Truthy(environment_url)
    THEN LET url == interpolate_env_variables(environment_url[1],
                                              DictUpdate(env, predefined))
         IN  DictUpdate(predefined, << << K_CI_ENVIRONMENT_URL, url >> >>)
    ELSE predefined

\* PredefinedVariables(**predefined): CI_ENVIRONMENT_URL defaults to None.
PredefinedVariables(predefined) ==
    [ CI_COMMIT_REF_NAME  |-> Lookup(predefined, K_CI_COMMIT_REF_NAME),
      CI_COMMIT_REF_SLUG  |-> Lookup(predefined, K_CI_COMMIT_REF_SLUG),
      CI_ENVIRONMENT_NAME |-> Lookup(predefined, K_CI_ENVIRONMENT_NAME),
      CI_ENVIRONMENT_SLUG |-> Lookup(predefined, K_CI_ENVIRONMENT_SLUG),
      CI_ENVIRONMENT_URL  |-> Get(predefined, K_CI_ENVIRONMENT_URL) ]

\* The value generate returns; env is the dict bound to its parameter env.
generate(branch, environment_name, environment_url, env) ==
    PredefinedVariables(
        GenerateWithUrl(GeneratePredefined(branch, environment_name),
                        environment_url, env))

\* A variant of EnvAfterGenerate: line 131 as env.update(predefined), which
\* stores the predefined variables into the dict bound to env.
EnvAfterGenerateUpdated(branch, environment_name, environment_url, env) ==
    IF Truthy(environment_url)
    THEN DictUpdate(env, GeneratePredefined(branch, environment_name))
    ELSE env

\* The dict bound to env as generate leaves it: {**env, **predefined} builds a
\* new dict and nothing is stored into env.
EnvAfterGenerate(branch, environment_name, environment_url, env) == env

(***************************************************************************)
(* State: one call frame.  pc is "call" once the arguments are bound and   *)
(* "return" once the body has run; fn names the function, args holds its   *)
(* arguments by parameter name, ret its return value.  last is the call    *)
(* completed before this one (None, or Some of its args and ret).          *)
(* default_env is the dict that is the default of generate's env, and      *)
(* caller_env the dict the caller passed as env, as the call left it.      *)
(***************************************************************************)
VARIABLES pc, fn, args, ret, last, default_env, caller_env

vars == << pc, fn, args, ret, last, default_env, caller_env >>

\* Bounds of the inputs.
MaxBranchLen == 4
MaxTailLen == 3

RECURSIVE Strs(_, _)
Strs(A, n) ==
    IF n = 0 THEN { << >> }
    ELSE LET S == Strs(A, n - 1) IN S \cup { Append(t, c) : t \in S, c \in A }

Rep(c, n) == [ i \in 1..n |-> c ]

(***************************************************************************)
(* SpecRefSlug: generate_commit_ref_slug on a branch, then on its result.  *)
(***************************************************************************)
RefAlphabet == { "a", "0", "-", "A", "_", "U+0130" }

\* Short branches, and long ones whose tail straddles the cut.
Branches ==
    Strs(RefAlphabet, MaxBranchLen)
    \cup { Rep("x", CommitRefSlugLen - 2) \o t : t \in Strs(RefAlphabet, MaxTailLen) }
    \cup { << "T", "E", "S", "T", "-", "b", "r", "a", "n", "c", "h" >> }

RefSlugInit ==
    /\ pc = "call"
    /\ fn = "generate_commit_ref_slug"
    /\ args \in [ branch : Branches ]
    /\ ret = << >>
    /\ last = None
    /\ default_env = << >>
    /\ caller_env = << >>

RefSlugCall ==
    /\ pc = "call"
    /\ fn = "generate_commit_ref_slug"
    /\ ret' = generate_commit_ref_slug(args.branch)
    /\ pc' = "return"
    /\ UNCHANGED << fn, args, last, default_env, caller_env >>

\* The slug is passed to generate_commit_ref_slug once more.
RefSlugAgain ==
    /\ pc = "return"
    /\ fn = "generate_commit_ref_slug"
    /\ last = None
    /\ last' = Some([ args |-> args, ret |-> ret ])
    /\ args' = [ branch |-> ret ]
    /\ ret' = << >>
    /\ pc' = "call"
    /\ UNCHANGED << fn, default_env, caller_env >>

RefSlugNext == RefSlugCall \/ RefSlugAgain

SpecRefSlug == RefSlugInit /\ [][RefSlugNext]_vars

HasAlnum(s) == \E i \in 1..Len(s) : s[i] \in AlnumSet
CountAlnum(s) == Cardinality({ i \in 1..Len(s) : s[i] \in AlnumSet })
StartsWithDash(s) == s # << >> /\ s[1] = "-"
Returned(f) == pc = "return" /\ fn = f

\* C1: every commit-ref slug holds only characters of [a-z0-9-] and is at
\* most 63 characters long.
C1_RefSlugCharsetAndLength ==
    Returned("generate_commit_ref_slug") =>
        /\ Len(ret) <= 63
        /\ \A i \in 1..Len(ret) : ret[i] \in LowerSet \cup DigitSet \cup { "-" }

\* C1 witness: a branch of more than 63 characters, some of them outside the
\* class, was cut to a slug of exactly 63.
C1_Witness ==
    /\ Returned("generate_commit_ref_slug")
    /\ last = None
    /\ Len(args.branch) > 63
    /\ \E i \in 1..Len(args.branch) : args.branch[i] \notin RefSlugChars
    /\ Len(ret) = 63

\* C2 as claimed: a normalized form with an alphanumeric character gives a
\* slug that neither starts nor ends with "-".
C2_Original ==
    (Returned("generate_commit_ref_slug") /\ HasAlnum(RefSlugNormalize(args.branch)))
        => ~StartsWithDash(ret) /\ ~EndsWithDash(ret)

\* C2 amended: with two or more alphanumeric characters in the normalized
\* form the slug neither starts nor ends with "-".  With exactly one, c, the
\* form is left as it is when c comes first ("a-" stays "a-"), and becomes
\* "-" followed by c when dashes come before it.  With none it is left as
\* it is.
C2_AnchoredStrip ==
    Returned("generate_commit_ref_slug") =>
        LET n == RefSlugNormalize(args.branch)
            k == CountAlnum(n)
        IN  /\ k >= 2 => (~StartsWithDash(ret) /\ ~EndsWithDash(ret))
            /\ (k = 1 /\ ~StartsWithDash(n)) => ret = n
            /\ (k = 1 /\ StartsWithDash(n)) =>
                   (Len(ret) = 2 /\ ret[1] = "-" /\ ret[2] \in AlnumSet)
            /\ k = 0 => ret = n

\* C2 witness: a normalized form with dashes on both sides of two
\* alphanumeric characters was stripped of them.
C2_Witness ==
    /\ Returned("generate_commit_ref_slug")
    /\ LET n == RefSlugNormalize(args.branch)
       IN  /\ CountAlnum(n) >= 2
           /\ StartsWithDash(n)
           /\ EndsWithDash(n)
           /\ ret # n
           /\ ~StartsWithDash(ret)
           /\ ~EndsWithDash(ret)

\* C3: the slug of a slug is that slug.
C3_RefSlugIdempotent ==
    (Returned("generate_commit_ref_slug") /\ last # None) => ret = last[1].ret

\* C3 witness: the first call changed the branch and the second call
\* returned the first call's slug.
C3_Witness ==
    /\ Returned("generate_commit_ref_slug")
    /\ last # None
    /\ last[1].args.branch # last[1].ret
    /\ HasAlnum(last[1].ret)
    /\ StartsWithDash(last[1].ret)
    /\ ret = last[1].ret

(***************************************************************************)
(* SpecEnvSlug: generate_environment_slug on one environment name.         *)
(***************************************************************************)
MaxNameLen == 3
MaxNameTailLen == 2

EnvAlphabet == { "a", "1", "-", "A", "_" }

NameProduction ==
    << "p", "r", "o", "d", "u", "c", "t", "i", "o", "n" >>

NameProductionQA ==
    << "P", "r", "o", "d", "u", "c", "t", "i", "o", "n", " ", "/", " ",
       "Q", "A", " ", "#", "1" >>

SlugProductionQA ==
    << "p", "r", "o", "d", "u", "c", "t", "i", "o", "n", "-", "q", "a",
       "-", "1", "-", "s", "4", "f", "r", "m", "y" >>

\* Short names, and names whose length is around the two limits.
EnvNames ==
    Strs(EnvAlphabet, MaxNameLen)
    \cup { Rep("b", n) \o t :
             n \in { EnvSlugPrefixLen - 2, EnvSlugPrefixLen - 1,
                     EnvSlugMaxLen - 2, EnvSlugMaxLen - 1 },
             t \in Strs(EnvAlphabet, MaxNameTailLen) }
    \cup { NameProduction, NameProductionQA, << "U+0130" >> }

EnvSlugInit ==
    /\ pc = "call"
    /\ fn = "generate_environment_slug"
    /\ args \in [ environment_name : EnvNames ]
    /\ ret = << >>
    /\ last = None
    /\ default_env = << >>
    /\ caller_env = << >>

EnvSlugCall ==
    /\ pc = "call"
    /\ fn = "generate_environment_slug"
    /\ ret' = generate_environment_slug(args.environment_name)
    /\ pc' = "return"
    /\ UNCHANGED << fn, args, last, default_env, caller_env >>

EnvSlugNext == EnvSlugCall

SpecEnvSlug == EnvSlugInit /\ [][EnvSlugNext]_vars

\* C4: every environment slug is at most 24 characters of [a-z0-9-] and
\* starts with a letter.
C4_EnvSlugShape ==
    Returned("generate_environment_slug") =>
        /\ Len(ret) <= 24
        /\ \A i \in 1..Len(ret) : ret[i] \in LowerSet \cup DigitSet \cup { "-" }
        /\ ret # << >>
        /\ ret[1] \in LowerSet

\* C4 witness: a name with no alphanumeric character got a slug that starts
\* with "env-".
C4_Witness ==
    /\ Returned("generate_environment_slug")
    /\ args.environment_name # << >>
    /\ ~HasAlnum(Lower(args.environment_name))
    /\ Len(ret) > 4
    /\ SubSeq(ret, 1, 4) = << "e", "n", "v", "-" >>

\* The fast path of the claim: the collapsed slug is at most 24 characters
\* and is the name itself.
IsOwnShortSlug(name) ==
    LET c == EnvSlugCollapsed(name) IN Len(c) <= 24 /\ c = name

MaxPairLen == 2

NameLong ==
    << "B", "b", "b", "b", "b", "b", "b", "b", "b", "b", "b", "b", "b",
       "b", "b", "b", "b", "b" >>

SlugLong ==
    << "b", "b", "b", "b", "b", "b", "b", "b", "b", "b", "b", "b", "b",
       "b", "b", "b", "b", "-", "s", "g", "2", "s", "w", "7" >>

PairNames ==
    Strs({ "a", "-", "A" }, MaxPairLen) \cup { NameLong, SlugLong }

EnvPairInit ==
    /\ pc = "call"
    /\ fn = "generate_environment_slug"
    /\ args \in [ environment_name : PairNames ]
    /\ ret = << >>
    /\ last = None
    /\ default_env = << >>
    /\ caller_env = << >>

\* A second name is passed to generate_environment_slug.
EnvSlugOther ==
    /\ pc = "return"
    /\ fn = "generate_environment_slug"
    /\ last = None
    /\ last' = Some([ args |-> args, ret |-> ret ])
    /\ args' \in [ environment_name : PairNames ]
    /\ ret' = << >>
    /\ pc' = "call"
    /\ UNCHANGED << fn, default_env, caller_env >>

EnvPairNext == EnvSlugCall \/ EnvSlugOther

SpecEnvPair == EnvPairInit /\ [][EnvPairNext]_vars

\* Two distinct names whose collapsed slugs are the same or have the same
\* first 17 characters (with "-" added when missing).
SamePrefixPair ==
    /\ Returned("generate_environment_slug")
    /\ last # None
    /\ args.environment_name # last[1].args.environment_name
    /\ EnvSlugPrefix(EnvSlugCollapsed(args.environment_name))
         = EnvSlugPrefix(EnvSlugCollapsed(last[1].args.environment_name))

\* C6 as claimed: two such names never get the same slug.
C6_Original == SamePrefixPair => ret # last[1].ret

\* C6 amended: two such names get different slugs when neither takes the
\* fast path.
C6_HashedSlugsDiffer ==
    ( /\ SamePrefixPair
      /\ ~IsOwnShortSlug(args.environment_name)
      /\ ~IsOwnShortSlug(last[1].args.environment_name) )
        => ret # last[1].ret

\* C6 witness: two distinct names with the same collapsed slug, both on the
\* hashed path, got slugs that differ only after the common prefix.
C6_Witness ==
    /\ SamePrefixPair
    /\ EnvSlugCollapsed(args.environment_name)
         = EnvSlugCollapsed(last[1].args.environment_name)
    /\ ~IsOwnShortSlug(args.environment_name)
    /\ ~IsOwnShortSlug(last[1].args.environment_name)
    /\ ret # last[1].ret
    /\ Len(ret) = Len(last[1].ret)
    /\ SubSeq(ret, 1, Len(ret) - 6) = SubSeq(last[1].ret, 1, Len(ret) - 6)

\* A name that is another name's hashed slug takes the fast path and
\* collides with it.
C6_SlugOfSlugCollides ==
    /\ SamePrefixPair
    /\ last[1].args.environment_name = NameLong
    /\ args.environment_name = SlugLong
    /\ ret = last[1].ret

(***************************************************************************)
(* SpecInterp: interpolate_env_variables on a template and a dict.         *)
(***************************************************************************)
MaxPieces == 2

KeyA == << "A" >>
KeyB == << "B" >>

\* The concatenations of at most n members of P.
RECURSIVE Concats(_, _)
Concats(P, n) ==
    IF n = 0 THEN { << >> }
    ELSE LET S == Concats(P, n - 1) IN S \cup { t \o q : t \in S, q \in P }

InterpPieces ==
    { DollarKey(KeyA), DollarBraceKey(KeyA), DollarKey(KeyB), DollarBraceKey(KeyB),
      << "x" >>, << "$" >> }

InterpValues == { << "x" >>, DollarKey(KeyB), DollarBraceKey(KeyA), << >> }

InterpDicts ==
    { << >> }
    \cup { << << k, v >> >> : k \in { KeyA, KeyB }, v \in InterpValues }
    \cup { << << k[1], v[1] >>, << k[2], v[2] >> >> :
             k \in { << KeyA, KeyB >>, << KeyB, KeyA >> },
             v \in InterpValues \X InterpValues }

InterpInit ==
    /\ pc = "call"
    /\ fn = "interpolate_env_variables"
    /\ args \in [ string : Concats(InterpPieces, MaxPieces), env_variables : InterpDicts ]
    /\ ret = << >>
    /\ last = None
    /\ default_env = << >>
    /\ caller_env = << >>

InterpCall ==
    /\ pc = "call"
    /\ fn = "interpolate_env_variables"
    /\ ret' = interpolate_env_variables(args.string, args.env_variables)
    /\ pc' = "return"
    /\ UNCHANGED << fn, args, last, default_env, caller_env >>

InterpNext == InterpCall

SpecInterp == InterpInit /\ [][InterpNext]_vars

Contains(s, p) == \E i \in 0..(Len(s) - Len(p)) : MatchAt(s, i, p)
HasToken(s, key) == Contains(s, DollarKey(key)) \/ Contains(s, DollarBraceKey(key))

\* C7: a token of a later key that the template does not hold, and that
\* comes into the string only inside the value put in for an earlier key,
\* is still in the result.
C7_Original ==
    ( /\ Returned("interpolate_env_variables")
      /\ Len(args.env_variables) = 2
      /\ HasToken(args.string, args.env_variables[1][1])
      /\ ~HasToken(args.string, args.env_variables[2][1]) )
        => \A tok \in { DollarKey(args.env_variables[2][1]),
                        DollarBraceKey(args.env_variables[2][1]) } :
               Contains(args.env_variables[1][2], tok) => Contains(ret, tok)

(***************************************************************************)
(* Spec: one call of PredefinedVariables.generate.                         *)
(***************************************************************************)
MaxNamePieces == 2

BranchTest == << "T", "E", "S", "T", "-", "b", "r", "a", "n", "c", "h" >>
SlugTestBranch == << "t", "e", "s", "t", "-", "b", "r", "a", "n", "c", "h" >>
StrDeployment == << "d", "e", "p", "l", "o", "y", "m", "e", "n", "t", "-" >>
NameDeploymentTest ==
    << "d", "e", "p", "l", "o", "y", "m", "e", "n", "t", "-", "t", "e",
       "s", "t", "-", "b", "r", "a", "n", "c", "h" >>

\* "deployment-$CI_COMMIT_REF_SLUG"
NameTemplateExample == StrDeployment \o DollarKey(K_CI_COMMIT_REF_SLUG)

\* "https://$CI_ENVIRONMENT_SLUG.example.com/$A"
UrlTemplateSlug ==
    << "h", "t", "t", "p", "s", ":", "/", "/" >>
    \o DollarKey(K_CI_ENVIRONMENT_SLUG)
    \o << ".", "e", "x", "a", "m", "p", "l", "e", ".", "c", "o", "m", "/" >>
    \o DollarKey(KeyA)

\* "${CI_ENVIRONMENT_NAME}-$CI_COMMIT_REF_NAME"
UrlTemplateNames ==
    DollarBraceKey(K_CI_ENVIRONMENT_NAME) \o << "-" >> \o DollarKey(K_CI_COMMIT_REF_NAME)

GenBranches ==
    { BranchTest, << "a", "-" >>, DollarKey(K_CI_COMMIT_REF_SLUG), << >> }

NamePieces ==
    { StrDeployment, DollarKey(K_CI_COMMIT_REF_SLUG), DollarBraceKey(K_CI_COMMIT_REF_NAME) }

GenUrls == { None, Some(<< >>), Some(UrlTemplateSlug), Some(UrlTemplateNames) }

\* env omitted, and env given: the second dict names a predefined variable.
GenEnvs ==
    { None,
      Some(<< << KeyA, DollarKey(K_CI_COMMIT_REF_SLUG) >> >>),
      Some(<< << K_CI_COMMIT_REF_NAME, << "z" >> >>, << KeyA, << "x" >> >> >>) }

GenArgs ==
    [ branch : GenBranches,
      environment_name : Concats(NamePieces, MaxNamePieces),
      environment_url : GenUrls,
      env : GenEnvs ]

\* The dict a call passes as env (none when env is omitted).
PassedEnv(a) == IF a.env = None THEN << >> ELSE a.env[1]

GenerateInit ==
    /\ pc = "call"
    /\ fn = "generate"
    /\ args \in GenArgs
    /\ ret = << >>
    /\ last = None
    /\ default_env = << >>
    /\ caller_env = PassedEnv(args)

\* The body of generate; an omitted env is bound to the default dict.
Generate ==
    /\ pc = "call"
    /\ fn = "generate"
    /\ LET env   == IF args.env = None THEN default_env ELSE caller_env
           after == EnvAfterGenerate(args.branch, args.environment_name,
                                     args.environment_url, env)
       IN  /\ ret' = generate(args.branch, args.environment_name,
                              args.environment_url, env)
           /\ default_env' = IF args.env = None THEN after ELSE default_env
           /\ caller_env' = IF args.env = None THEN caller_env ELSE after
    /\ pc' = "return"
    /\ UNCHANGED << fn, args, last >>

Next == Generate

Spec == GenerateInit /\ [][Next]_vars

\* The four variables that follow the extra variables in the dict of the
\* URL interpolation.
UrlPredefined(r) ==
    << << K_CI_COMMIT_REF_NAME, r.CI_COMMIT_REF_NAME >>,
       << K_CI_COMMIT_REF_SLUG, r.CI_COMMIT_REF_SLUG >>,
       << K_CI_ENVIRONMENT_NAME, r.CI_ENVIRONMENT_NAME >>,
       << K_CI_ENVIRONMENT_SLUG, r.CI_ENVIRONMENT_SLUG >> >>

UrlOfTemplate(template) ==
    Some(interpolate_env_variables(template,
                                   DictUpdate(PassedEnv(args), UrlPredefined(ret))))

\* C8: CI_ENVIRONMENT_URL is the interpolation of the template whenever a
\* template is given, the empty one included, and is absent only when none
\* is given.
C8_Original ==
    Returned("generate") =>
        IF args.environment_url = None
        THEN ret.CI_ENVIRONMENT_URL = None
        ELSE ret.CI_ENVIRONMENT_URL = UrlOfTemplate(args.environment_url[1])

\* What holds of line 129: the same for every template but the empty one,
\* for which CI_ENVIRONMENT_URL is absent.
C8_NonEmptyTemplates ==
    Returned("generate") =>
        IF args.environment_url \in { None, Some(<< >>) }
        THEN ret.CI_ENVIRONMENT_URL = None
        ELSE ret.CI_ENVIRONMENT_URL = UrlOfTemplate(args.environment_url[1])

\* C9: generate returns the branch as CI_COMMIT_REF_NAME, its slug as
\* CI_COMMIT_REF_SLUG, the template with the tokens of CI_COMMIT_REF_NAME and
\* then those of CI_COMMIT_REF_SLUG replaced as CI_ENVIRONMENT_NAME, and the
\* slug of that name as CI_ENVIRONMENT_SLUG.
C9_GenerateFields ==
    Returned("generate") =>
        LET b  == args.branch
            sl == generate_commit_ref_slug(b)
            n1 == Replace(Replace(args.environment_name,
                                  DollarKey(K_CI_COMMIT_REF_NAME), b),
                          DollarBraceKey(K_CI_COMMIT_REF_NAME), b)
            n2 == Replace(Replace(n1, DollarKey(K_CI_COMMIT_REF_SLUG), sl),
                          DollarBraceKey(K_CI_COMMIT_REF_SLUG), sl)
        IN  /\ ret.CI_COMMIT_REF_NAME = b
            /\ ret.CI_COMMIT_REF_SLUG = sl
            /\ ret.CI_ENVIRONMENT_NAME = n2
            /\ ret.CI_ENVIRONMENT_SLUG = generate_environment_slug(n2)
            /\ (b = BranchTest /\ args.environment_name = NameTemplateExample) =>
                   /\ ret.CI_COMMIT_REF_SLUG = SlugTestBranch
                   /\ ret.CI_ENVIRONMENT_NAME = NameDeploymentTest

\* C9 witness: the example of the program's help text.
C9_Witness ==
    /\ Returned("generate")
    /\ args.branch = BranchTest
    /\ args.environment_name = NameTemplateExample
    /\ ret.CI_COMMIT_REF_NAME = BranchTest
    /\ ret.CI_COMMIT_REF_SLUG = SlugTestBranch
    /\ ret.CI_ENVIRONMENT_NAME = NameDeploymentTest
    /\ ret.CI_ENVIRONMENT_SLUG = NameDeploymentTest

(***************************************************************************)
(* SpecCalls: PredefinedVariables.generate called again and again in one   *)
(* process, each call with arguments of its own.                           *)
(***************************************************************************)
CallArgs ==
    [ branch : { BranchTest, << "a", "-" >> },
      environment_name : { NameTemplateExample, StrDeployment },
      environment_url : { None, Some(UrlTemplateSlug) },
      env : { None,
              Some(<< << KeyA, << "x" >> >> >>),
              Some(<< << K_CI_COMMIT_REF_NAME, << "z" >> >>, << KeyA, << "x" >> >> >>) } ]

CallsInit ==
    /\ pc = "call"
    /\ fn = "generate"
    /\ args \in CallArgs
    /\ ret = << >>
    /\ last = None
    /\ default_env = << >>
    /\ caller_env = PassedEnv(args)

\* The next call: the default dict of env lives on from call to call, the
\* caller passes a dict of its own.
GenerateAgain ==
    /\ pc = "return"
    /\ fn = "generate"
    /\ last' = Some([ args |-> args, ret |-> ret ])
    /\ \E a \in CallArgs :
           /\ args' = a
           /\ caller_env' = PassedEnv(a)
    /\ ret' = << >>
    /\ pc' = "call"
    /\ UNCHANGED << fn, default_env >>

CallsNext == Generate \/ GenerateAgain

SpecCalls == CallsInit /\ [][CallsNext]_vars

\* C10: after every call the default dict of env is empty and the dict the
\* caller passed is as it was passed, and the call returns what generate
\* returns for its arguments with an empty default.
C10_CallsIndependent ==
    /\ default_env = << >>
    /\ Returned("generate") =>
           /\ caller_env = PassedEnv(args)
           /\ ret = generate(args.branch, args.environment_name,
                             args.environment_url, PassedEnv(args))

\* C10 witness: a call that leaves env out and gives a URL template, after
\* a call of the same arguments, with the result of that call.
C10_Witness ==
    /\ Returned("generate")
    /\ last # None
    /\ last[1].args = args
    /\ args.env = None
    /\ Truthy(args.environment_url)
    /\ ret.CI_ENVIRONMENT_URL # None
    /\ ret = last[1].ret

=============================================================================
